---- MODULE Spec2Model ----
(***************************************************************************)
(* Model of pleiades_writing_systems.romanization: the Romanizer's         *)
(* romanize() pipeline (tag validation, script detection, language         *)
(* guessing, script/language mismatch check, engine dispatch, identity     *)
(* entry) with its lru_cache memoization and the list objects the caches   *)
(* share, the engines property, and the ScriptDetector with the parser of  *)
(* its registry.                                                           *)
(*                                                                         *)
(* A text is a sequence of characters; a character is named by a short     *)
(* ASCII string.  A language tag is a string.                              *)
(***************************************************************************)
EXTENDS Integers, Sequences, FiniteSets, TLC

\* ------------------------------------------------------------------ bounds
\* capacity of every lru_cache of the model (the code's maxsize=5000, scaled)
CacheMax == 2
\* number of romanize() calls of one behaviour over the full input sets
MaxCalls == 2

\* --------------------------------------------------------------- characters
\* Python's None (dict.get on a missing key, Language.script when absent)
None == "<None>"

\* str(x) as an f-string renders it
Str(x) == IF x = None THEN "None" ELSE x

\* first word of unicodedata.name(c)
unicodedata_name(c) ==
  CASE c \in {"alpha", "eta_tonos", "theta"} -> "GREEK"
    [] c \in {"a", "e", "h", "i", "t", "y", "z", "e_macron_acute"} -> "LATIN"
    [] c = "ya" -> "CYRILLIC"
    [] c = "zhong" -> "CJK"
    [] c = "d1" -> "DIGIT"
    [] OTHER -> "SPACE"

\* str.isalpha of one character
isalpha(c) == unicodedata_name(c) \in {"GREEK", "LATIN", "CYRILLIC", "CJK"}

\* str.title of a script name
title(name) ==
  CASE name = "GREEK" -> "Greek"
    [] name = "LATIN" -> "Latin"
    [] name = "CYRILLIC" -> "Cyrillic"
    [] name = "CJK" -> "Cjk"
    [] name = "DIGIT" -> "Digit"
    [] OTHER -> "Space"

\* str.lower of one character
lower(c) == IF c = "T" THEN "t" ELSE c

\* set(text)
CharsOf(text) == {text[i] : i \in 1..Len(text)}

\* ----------------------------------------------------------- registry index
\* ScriptDetector.scripts_by_description as _parse_registry leaves it for the
\* IANA registry: the description "Han (Hanzi, Kanji, Hanja)" is no Unicode
\* script name, so "Cjk" has no entry.
scripts_by_description ==
  [d \in {"Greek", "Latin", "Cyrillic", "Han (Hanzi, Kanji, Hanja)"} |->
     CASE d = "Greek" -> "Grek"
       [] d = "Latin" -> "Latn"
       [] d = "Cyrillic" -> "Cyrl"
       [] OTHER -> "Hani"]

\* ScriptDetector.languages_by_script: the languages whose Suppress-Script is
\* the script
languages_by_script ==
  [s \in {"Grek", "Latn", "Cyrl"} |->
     CASE s = "Grek" -> {"el"}
       [] s = "Latn" -> {"en", "fr"}
       [] OTHER -> {"ru", "be"}]

\* dict.get(key, default)
DictGet(d, k, default) == IF k \in DOMAIN d THEN d[k] ELSE default

\* ScriptDetector.detect_scripts, the wrapped function: the set of
\* scripts_by_description.get(name.title()) over the script names of the
\* alphabetic characters (the code returns list(set); only its length, its one
\* element and its equality with ["Latn"] are ever used)
detect_scripts(text) ==
  LET chars == CharsOf(text)
      scriptnames == {unicodedata_name(c) : c \in {x \in chars : isalpha(x)}}
  IN {DictGet(scripts_by_description, title(name), None) : name \in scriptnames}

\* ----------------------------------------------------------- registry parser
\* A line of the registry is <<prefix, suffix>> for the text "prefix: suffix"
\* and <<"  ", rest>> for a continuation line "  rest".  An entry is the
\* sequence of the lines between two "%%" lines.
startswith_indent(line) == line[1] = "  "

\* " ".join((new_lines[-1], line[2:])): the value of the expression
JoinedLine(previous, line) == <<previous[1], previous[2] \o " " \o line[2]>>

\* the loop that builds new_lines: the joined string is computed and dropped,
\* the continuation line is not appended
RECURSIVE new_lines(_)
new_lines(lines) ==
  IF lines = <<>> THEN <<>>
  ELSE IF startswith_indent(lines[Len(lines)])
  THEN new_lines(SubSeq(lines, 1, Len(lines) - 1))
  ELSE Append(new_lines(SubSeq(lines, 1, Len(lines) - 1)), lines[Len(lines)])

\* the values of the fields named prefix among the lines, in order
RECURSIVE FieldValues(_, _)
FieldValues(lines, prefix) ==
  IF lines = <<>> THEN <<>>
  ELSE (IF Head(lines)[1] = prefix THEN <<Head(lines)[2]>> ELSE <<>>)
       \o FieldValues(Tail(lines), prefix)

SeqToSet(q) == {q[i] : i \in 1..Len(q)}

\* the fields a language entry may have besides Subtag and Suppress-Script
LanguageFields ==
  {"Added", "Comments", "Description", "Scope", "Macrolanguage", "Deprecated",
   "Preferred-Value"}

\* the fields a script entry may have besides Subtag and Description (the
\* values of Description are collected, see ParseScript)
ScriptFields == {"Added", "Comments"}

\* the ValueError the field loop of an entry raises, "" when it raises none:
\* the loop stops at the first offending line
RECURSIVE FieldLoopError(_, _, _, _, _)
FieldLoopError(lines, kind, allowed, single, seen) ==
  IF lines = <<>> THEN ""
  ELSE IF Head(lines)[1] = "Subtag"
  THEN IF "Subtag" \in seen THEN "Multiple Subtag fields in single " \o kind \o " entry"
       ELSE FieldLoopError(Tail(lines), kind, allowed, single, seen \cup {"Subtag"})
  ELSE IF Head(lines)[1] = single
  THEN IF single \in seen THEN "Multiple Script fields in single " \o kind \o " entry"
       ELSE FieldLoopError(Tail(lines), kind, allowed, single, seen \cup {single})
  ELSE IF Head(lines)[1] \in allowed
  THEN FieldLoopError(Tail(lines), kind, allowed, single, seen)
  ELSE "Unexpected field in " \o kind \o " entry"

\* the first value of a field, "" when the entry has none
FieldValue(lines, prefix) ==
  IF FieldValues(lines, prefix) = <<>> THEN "" ELSE FieldValues(lines, prefix)[1]

DuplicateDescription == "Duplicate script description"

DuplicateSubtag == "Duplicate script subtag"

\* A detector under construction: the entries of the registry, the number of
\* entries parsed, the three tables and the exception that ended the parse
\* ("" when none did).
Tables(registry, entry, by_description, by_subtag, by_script, exc) ==
  [registry |-> registry, entry |-> entry,
   scripts_by_description |-> by_description,
   scripts_by_subtag |-> by_subtag,
   languages_by_script |-> by_script, exc |-> exc]

\* an exception leaves _parse_registry and the constructor
Fails(d, exc) == [d EXCEPT !.exc = exc]

\* a function with one more key, or one key changed
With(f, k, v) == [x \in DOMAIN f \cup {k} |-> IF x = k THEN v ELSE f[x]]

\* the body of the loop for an entry whose first line is "Type: language"
ParseLanguage(d, lines) ==
  LET err == FieldLoopError(Tail(lines), "language", LanguageFields,
                            "Suppress-Script", {})
      subtag == FieldValue(Tail(lines), "Subtag")
      script == FieldValue(Tail(lines), "Suppress-Script")
  IN IF err # "" THEN Fails(d, err)
     ELSE IF subtag # "" /\ script # ""
     THEN [d EXCEPT !.languages_by_script =
             With(@, script, DictGet(@, script, {}) \cup {subtag})]
     ELSE d

\* the body of the loop for an entry whose first line is "Type: script"
ParseScript(d, lines) ==
  LET err == FieldLoopError(Tail(lines), "script",
                            ScriptFields \cup {"Description"}, "", {})
      subtag == FieldValue(Tail(lines), "Subtag")
      descriptions == SeqToSet(FieldValues(Tail(lines), "Description"))
  IN IF err # "" THEN Fails(d, err)
     ELSE IF subtag = "" \/ descriptions = {} THEN d
     ELSE IF \E description \in descriptions :
               description \in DOMAIN d.scripts_by_description
     THEN Fails(d, DuplicateDescription)
     ELSE IF subtag \in DOMAIN d.scripts_by_subtag
     THEN Fails(d, DuplicateSubtag)
     ELSE [d EXCEPT
             !.scripts_by_description =
               [x \in DOMAIN @ \cup descriptions |->
                  IF x \in descriptions THEN subtag ELSE @[x]],
             !.scripts_by_subtag = With(@, subtag, descriptions)]

\* one turn of "for entry in entries"
ParseOne(d, lines) ==
  IF new_lines(lines)[1] = <<"Type", "language">>
  THEN ParseLanguage(d, new_lines(lines))
  ELSE IF new_lines(lines)[1] = <<"Type", "script">>
  THEN ParseScript(d, new_lines(lines))
  ELSE d

\* the detector before the first entry is parsed
Unparsed(registry) == Tables(registry, 0, <<>>, <<>>, <<>>, "")

\* _parse_registry from the entry after d.entry on: it stops at the first
\* exception, and d.entry is then the entry that raised
RECURSIVE ParseAll(_)
ParseAll(d) ==
  IF d.exc # "" \/ d.entry = Len(d.registry) THEN d
  ELSE ParseAll([ParseOne(d, d.registry[d.entry + 1]) EXCEPT !.entry = d.entry + 1])

\* entries of a registry
ScriptEntry(subtag, description) ==
  <<<<"Type", "script">>, <<"Subtag", subtag>>, <<"Description", description>>>>

LanguageEntry(subtag, script) ==
  <<<<"Type", "language">>, <<"Subtag", subtag>>, <<"Suppress-Script", script>>>>

\* the registry the Romanizer's detector is built from, as far as the model's
\* texts and tags need it
IanaRegistry ==
  << LanguageEntry("be", "Cyrl"), LanguageEntry("el", "Grek"),
     LanguageEntry("en", "Latn"), LanguageEntry("fr", "Latn"),
     LanguageEntry("ru", "Cyrl"),
     ScriptEntry("Cyrl", "Cyrillic"), ScriptEntry("Grek", "Greek"),
     ScriptEntry("Hani", "Han (Hanzi, Kanji, Hanja)"),
     ScriptEntry("Latn", "Latin") >>

\* -------------------------------------------------------------- tag service
\* langcodes: the subtags the model's tags are made of
LanguageSubtags == {"und", "el", "grc", "ru", "sr", "ar"}
ScriptSubtags == {"Grek", "Latn", "Cyrl", "None"}

\* Language.to_tag
to_tag(language, script) ==
  IF script = None THEN language ELSE language \o "-" \o script

ParsedTags ==
  [language : LanguageSubtags, script : ScriptSubtags \cup {None}]

\* the tag string of every parsed tag
TagStrings == [p \in ParsedTags |-> to_tag(p.language, p.script)]

\* langcodes.tag_is_valid
tag_is_valid(tag) == \E p \in ParsedTags : TagStrings[p] = tag

\* langcodes.Language.get: the parsed tag
LanguageGet(tag) == CHOOSE p \in ParsedTags : TagStrings[p] = tag

\* the script langcodes leaves out of a standardized tag of the language
suppress_script(language) ==
  CASE language = "el" -> "Grek"
    [] language = "ru" -> "Cyrl"
    [] language = "ar" -> "Arab"
    [] OTHER -> None

\* langcodes.standardize_tag
standardize_tag(tag) ==
  LET p == LanguageGet(tag)
  IN to_tag(p.language,
            IF p.script = suppress_script(p.language) THEN None ELSE p.script)

\* str.startswith("und")
startswith_und(tag) == Len(tag) >= 3 /\ SubSeq(tag, 1, 3) = "und"

\* ---------------------------------------------------------------- RomanString
RomanString(original_text, original_lang_tag, romanized_form, engine) ==
  [original |-> original_text, original_lang_tag |-> original_lang_tag,
   romanized |-> romanized_form, engine |-> engine]

\* ------------------------------------------------------------------- state
VARIABLES
  cache,       \* the lru_cache of romanize, of detect_scripts and of each engine
  residue,     \* what the external backends do with a character outside their
               \* tables: "keep" it or "drop" it
  hash_order,  \* the iteration order of a set of strings in this process
  ncalls,      \* romanize() calls made so far
  last,        \* what the last call of the caller (romanize, or a read of
               \* engines) did and gave back
  detector     \* the ScriptDetector: its registry and the tables parsed from it

vars == <<cache, residue, hash_order, ncalls, last, detector>>

\* Romanizer._engines, in registration (dict insertion) order
_engines ==
  <<"iuliia", "python-slugify", "romanize-schizas", "romanize-manninen", "yuconv">>

EngineNames == {_engines[i] : i \in 1..Len(_engines)}

CacheNames == {"romanize", "detect_scripts"} \cup EngineNames

\* ------------------------------------------------------------- lru_cache
\* a cache is a sequence of entries, least recently used first.  An entry is
\* [key, val, obj]: obj names the list object the entry holds when that object
\* can be reached from elsewhere (the lists of romanize and of python-slugify),
\* and is NoObj for the other caches.
NoObj == 0

Hit(c, k) == \E i \in 1..Len(c) : c[i].key = k

EntryOf(c, k) == c[CHOOSE i \in 1..Len(c) : c[i].key = k]

Lookup(c, k) == EntryOf(c, k).val

RECURSIVE Without(_, _)
Without(c, k) ==
  IF c = <<>> THEN <<>>
  ELSE IF Head(c).key = k THEN Without(Tail(c), k)
  ELSE <<Head(c)>> \o Without(Tail(c), k)

\* a hit makes the entry the most recently used
Touch(c, k) == Append(Without(c, k), EntryOf(c, k))

\* a miss stores the result, evicting the least recently used entry when full
InsertObj(c, k, v, obj) ==
  LET c2 == Append(c, [key |-> k, val |-> v, obj |-> obj])
  IN IF Len(c2) > CacheMax THEN Tail(c2) ELSE c2

Insert(c, k, v) == InsertObj(c, k, v, NoObj)

\* the list objects the caches of romanize and of python-slugify hold
ObjsOf(caches) ==
  UNION {{caches[n][i].obj : i \in 1..Len(caches[n])} :
           n \in {"romanize", "python-slugify"}} \ {NoObj}

\* a list object just created: a name none of the cached lists has
FreshObj(caches) ==
  CHOOSE n \in 1..(2 * CacheMax + 1) :
    /\ n \notin ObjsOf(caches)
    /\ \A m \in 1..(n - 1) : m \in ObjsOf(caches)

\* a change of the list object obj to v, seen through every entry that holds it
MutateObj(caches, obj, v) ==
  [n \in DOMAIN caches |->
     [i \in 1..Len(caches[n]) |->
        IF obj # NoObj /\ caches[n][i].obj = obj
        THEN [caches[n][i] EXCEPT !.val = v]
        ELSE caches[n][i]]]

\* the key lru_cache makes of the arguments of romanize
RomanizeKey(text, lang_tags) == <<text, lang_tags>>

\* ---------------------------------------------------------------- backends
\* a character outside a backend's table
Residue(c, r) == IF r = "keep" THEN <<c>> ELSE <<>>

\* python_slugify.slugify(text, separator=" ", lowercase=False): ASCII only
slugify_char(c, r) ==
  CASE c = "alpha" -> <<"a">>
    [] c = "theta" -> <<"t", "h">>
    [] c = "eta_tonos" -> <<"e">>
    [] c = "e_macron_acute" -> <<"e">>
    [] c = "ya" -> <<"y", "a">>
    [] c = "zhong" -> <<"z">>
    [] OTHER -> <<c>>

\* romanize (Schizas): modern Greek
schizas_char(c, r) ==
  CASE c = "alpha" -> <<"a">>
    [] c = "theta" -> <<"t", "h">>
    [] c = "eta_tonos" -> <<"i">>
    [] unicodedata_name(c) \in {"LATIN", "DIGIT"} -> <<c>>
    [] OTHER -> Residue(c, r)

\* romanize3 (Manninen), the grc converter: it writes theta as h and leaves
\* the accented eta in Greek
manninen_grc_char(c, r) ==
  CASE c = "alpha" -> <<"a">>
    [] c = "theta" -> <<"h">>
    [] c = "eta_tonos" -> <<"eta_tonos">>
    [] unicodedata_name(c) \in {"LATIN", "DIGIT"} -> <<c>>
    [] OTHER -> Residue(c, r)

\* romanize3 (Manninen), the ara converter: no Arabic letter is among the
\* model's characters
manninen_ara_char(c, r) ==
  CASE unicodedata_name(c) \in {"LATIN", "DIGIT"} -> <<c>>
    [] OTHER -> Residue(c, r)

\* Romanizer._manninen_substitutions
manninen_substitutions(c, r) ==
  IF c = "eta_tonos" THEN <<"e_macron_acute">> ELSE <<c>>

\* iuliia, schema "wikipedia"
iuliia_wikipedia_char(c, r) ==
  CASE c = "ya" -> <<"y", "a">>
    [] unicodedata_name(c) \in {"LATIN", "DIGIT"} -> <<c>>
    [] OTHER -> Residue(c, r)

\* iuliia, schema "mosmetro"
iuliia_mosmetro_char(c, r) ==
  CASE c = "ya" -> <<"i", "a">>
    [] unicodedata_name(c) \in {"LATIN", "DIGIT"} -> <<c>>
    [] OTHER -> Residue(c, r)

\* yuconv, Serbian Cyrillic to Latin: the Russian letter is not Serbian
yuconv_char(c, r) ==
  CASE unicodedata_name(c) \in {"LATIN", "DIGIT"} -> <<c>>
    [] OTHER -> Residue(c, r)

\* iuliia, schema "uz"
iuliia_uz_char(c, r) ==
  CASE c = "ya" -> <<"y", "a">>
    [] unicodedata_name(c) \in {"LATIN", "DIGIT"} -> <<c>>
    [] OTHER -> Residue(c, r)

\* the table a backend applies to one character
BackendChar(backend, c, r) ==
  CASE backend = "slugify_char" -> slugify_char(c, r)
    [] backend = "schizas_char" -> schizas_char(c, r)
    [] backend = "manninen_grc_char" -> manninen_grc_char(c, r)
    [] backend = "manninen_ara_char" -> manninen_ara_char(c, r)
    [] backend = "manninen_substitutions" -> manninen_substitutions(c, r)
    [] backend = "iuliia_wikipedia_char" -> iuliia_wikipedia_char(c, r)
    [] backend = "iuliia_mosmetro_char" -> iuliia_mosmetro_char(c, r)
    [] backend = "iuliia_uz_char" -> iuliia_uz_char(c, r)
    [] backend = "yuconv_char" -> yuconv_char(c, r)

\* str.translate / a per-character transliteration: the concatenation of
\* what the backend makes of each character
RECURSIVE Translate(_, _, _)
Translate(text, backend, r) ==
  IF text = <<>> THEN <<>>
  ELSE BackendChar(backend, Head(text), r) \o Translate(Tail(text), backend, r)

\* list(a set of at most two strings): the order is the process's
ListOfSet(x, y, order) ==
  IF x = y THEN <<x>> ELSE IF order = 0 THEN <<x, y>> ELSE <<y, x>>

\* -------------------------------------------------- the memoized detector
\* detect_scripts through its lru_cache: the value and the caches afterwards
CachedDetect(caches, text) ==
  LET c == caches["detect_scripts"]
  IN IF Hit(c, text)
     THEN [val |-> Lookup(c, text),
           caches |-> [caches EXCEPT !["detect_scripts"] = Touch(c, text)]]
     ELSE [val |-> detect_scripts(text),
           caches |-> [caches EXCEPT !["detect_scripts"] =
                         Insert(c, text, detect_scripts(text))]]

\* ------------------------------------------------------- engine adapters
\* An adapter gives [exc, val, caches, obj]: the exception it raises ("" when
\* it returns), the list it returns, the caches afterwards, and the list
\* object returned where the model follows it.
Unsupported == "RomanizationUnsupportedLanguageError"

Raise(exc, caches) ==
  [exc |-> exc, val |-> <<>>, caches |-> caches, obj |-> NoObj]

Return(val, caches) ==
  [exc |-> "", val |-> val, caches |-> caches, obj |-> NoObj]

\* f"{lang_subtag}-{script_subtag}" standardized
AdapterLangtags(lang_subtag, script_subtag) ==
  standardize_tag(lang_subtag \o "-" \o Str(script_subtag))

_romanize_with_iuliia(text, lang_subtag, script_subtag, caches, r, order) ==
  LET langtags == AdapterLangtags(lang_subtag, script_subtag)
      supported_lang_subtags ==
        {"ab", "be", "bg", "kk", "mk", "ru", "uk", "uz", "uzn", "uzs"}
      supported_script_subtags == {"Cyrl"}
      wikipedia == Translate(text, "iuliia_wikipedia_char", r)
      mosmetro == Translate(text, "iuliia_mosmetro_char", r)
      romanized_forms ==
        IF lang_subtag # "ru" THEN <<wikipedia>>
        ELSE ListOfSet(mosmetro, wikipedia, order)
  IN IF ~(lang_subtag \in supported_lang_subtags
          /\ script_subtag \in supported_script_subtags)
     THEN Raise(Unsupported, caches)
     ELSE IF lang_subtag \in {"uz", "uzn", "uzs"}
     THEN Return(<<RomanString(text, langtags,
                               Translate(text, "iuliia_uz_char", r), "iuliia")>>,
                 caches)
     ELSE Return([i \in 1..Len(romanized_forms) |->
                    RomanString(text, langtags, romanized_forms[i], "iuliia")],
                 caches)

_romanize_with_python_slugify(text, lang_subtag, script_subtag, caches, r, order) ==
  Return(<<RomanString(text, AdapterLangtags(lang_subtag, script_subtag),
                       Translate(text, "slugify_char", r), "python-slugify")>>,
         caches)

_romanize_with_romanize_schizas(text, lang_subtag, script_subtag, caches, r, order) ==
  LET langtags == AdapterLangtags(lang_subtag, script_subtag)
  IN IF lang_subtag \in {"el"} /\ script_subtag \in {"Grek"}
     THEN Return(<<RomanString(text, langtags,
                               Translate(text, "schizas_char", r),
                               "romanize-schizas")>>, caches)
     ELSE Raise(Unsupported, caches)

\* romanized_text[1:].replace("h", "th")
RECURSIVE ReplaceHWithTh(_)
ReplaceHWithTh(text) ==
  IF text = <<>> THEN <<>>
  ELSE (IF Head(text) = "h" THEN <<"t", "h">> ELSE <<Head(text)>>)
       \o ReplaceHWithTh(Tail(text))

\* the digraph repair of the manninen adapter
ManninenThRepair(romanized_text) ==
  IF "h" \in CharsOf(Tail(romanized_text)) /\ lower(Head(romanized_text)) # "t"
  THEN <<Head(romanized_text)>> \o ReplaceHWithTh(Tail(romanized_text))
  ELSE romanized_text

_romanize_with_romanize_manninen(text, lang_subtag, script_subtag, caches, r, order) ==
  LET langtags == AdapterLangtags(lang_subtag, script_subtag)
      supported_lang_subtags ==
        {"grc", "hy", "syc", "ar", "phn", "brh", "cop", "hbo"}
      supported_script_subtags ==
        {"Grek", "Armn", "Syrc", "Arab", "Phnx", "Brah", "Copt", "Hebr"}
      converted ==
        IF lang_subtag = "ar" THEN Translate(text, "manninen_ara_char", r)
        ELSE Translate(text, "manninen_grc_char", r)
      d1 == CachedDetect(caches, converted)
      substituted == Translate(converted, "manninen_substitutions", r)
      d2 == CachedDetect(d1.caches, substituted)
  IN IF ~(lang_subtag \in supported_lang_subtags
          /\ script_subtag \in supported_script_subtags)
     THEN Raise(Unsupported, caches)
     ELSE IF d1.val = {"Latn"}
     THEN Return(<<RomanString(text, langtags, ManninenThRepair(converted),
                               "romanize-manninen")>>, d1.caches)
     ELSE IF d2.val # {"Latn"}
     THEN Raise("RuntimeError", d2.caches)
     ELSE Return(<<RomanString(text, langtags, ManninenThRepair(substituted),
                               "romanize-manninen")>>, d2.caches)

_romanize_with_yuconv(text, lang_subtag, script_subtag, caches, r, order) ==
  LET langtags == AdapterLangtags(lang_subtag, script_subtag)
  IN IF lang_subtag \in {"sr"} /\ script_subtag \in {"Cyrl"}
     THEN Return(<<RomanString(text, langtags, Translate(text, "yuconv_char", r),
                               "yuconv")>>, caches)
     ELSE Raise(Unsupported, caches)

\* the function an engine name is registered with
EngineBody(name, text, lang_subtag, script_subtag, caches, r, order) ==
  CASE name = "iuliia" ->
         _romanize_with_iuliia(text, lang_subtag, script_subtag, caches, r, order)
    [] name = "python-slugify" ->
         _romanize_with_python_slugify(text, lang_subtag, script_subtag, caches, r, order)
    [] name = "romanize-schizas" ->
         _romanize_with_romanize_schizas(text, lang_subtag, script_subtag, caches, r, order)
    [] name = "romanize-manninen" ->
         _romanize_with_romanize_manninen(text, lang_subtag, script_subtag, caches, r, order)
    [] OTHER ->
         _romanize_with_yuconv(text, lang_subtag, script_subtag, caches, r, order)

\* lru_cache around an engine: res is what the wrapped function does on a
\* miss; a raised exception is not cached
EngineCached(name, k, caches, res) ==
  IF Hit(caches[name], k)
  THEN [Return(Lookup(caches[name], k),
               [caches EXCEPT ![name] = Touch(caches[name], k)])
          EXCEPT !.obj = EntryOf(caches[name], k).obj]
  ELSE IF res.exc # "" THEN res
  ELSE IF name = "python-slugify"
  THEN [Return(res.val,
               [res.caches EXCEPT ![name] =
                  InsertObj(res.caches[name], k, res.val,
                            FreshObj(res.caches))])
          EXCEPT !.obj = FreshObj(res.caches)]
  ELSE Return(res.val,
              [res.caches EXCEPT ![name] = Insert(res.caches[name], k, res.val)])

\* an engine called through its lru_cache
EngineCall(name, text, lang_subtag, script_subtag, caches, r, order) ==
  EngineCached(name, <<text, lang_subtag, script_subtag>>, caches,
               EngineBody(name, text, lang_subtag, script_subtag, caches, r, order))

\* ------------------------------------------------------------- romanize
\* what one run of the body of romanize leaves: the exception raised ("" when
\* it returns), the list returned, the caches afterwards, whether
\* detect_scripts was called on the text, the engine calls made in order, the
\* place it left from and its locals there; obj is the list object returned
\* when it is one a cache already holds (NoObj for a list made by this run)
Outcome(exc, val, caches, detected, calls, stage, source_script, lang_tags, source_language) ==
  [exc |-> exc, val |-> val, caches |-> caches, detected |-> detected,
   calls |-> calls, stage |-> stage, source_script |-> source_script,
   lang_tags |-> lang_tags, source_language |-> source_language,
   obj |-> NoObj]

EngineCallRecord(name, lang_subtag, script_subtag, exc) ==
  [engine |-> name, lang_subtag |-> lang_subtag,
   script_subtag |-> script_subtag, exc |-> exc]

\* a turn that puts the engine's list in front of romanizations
EngineTurnPrepend(acc, name, lang_subtag, script_subtag, res) ==
  [exc |-> IF res.exc = Unsupported THEN "" ELSE res.exc,
   val |-> IF res.exc = "" THEN res.val \o acc.val ELSE acc.val,
   caches |-> res.caches,
   calls |-> Append(acc.calls,
                    EngineCallRecord(name, lang_subtag, script_subtag, res.exc)),
   obj |-> acc.obj]

\* one turn of the loop over the engines: the unsupported-language error is
\* logged and skipped, a returned list extends romanizations, any other
\* exception leaves the loop
EngineTurn(acc, name, lang_subtag, script_subtag, res) ==
  [exc |-> IF res.exc = Unsupported THEN "" ELSE res.exc,
   val |-> IF res.exc = "" THEN acc.val \o res.val ELSE acc.val,
   caches |-> res.caches,
   calls |-> Append(acc.calls,
                    EngineCallRecord(name, lang_subtag, script_subtag, res.exc)),
   obj |-> acc.obj]

\* romanizations = list()
NewList(caches) ==
  [exc |-> "", val |-> <<>>, caches |-> caches, calls |-> <<>>, obj |-> NoObj]

\* the loop over self._engines.items(): acc is [exc, val, caches, calls, obj]
RECURSIVE RunEngines(_, _, _, _, _, _, _)
RunEngines(i, acc, text, source_language, source_script, r, order) ==
  IF i > Len(_engines) \/ acc.exc # "" THEN acc
  ELSE RunEngines(i + 1,
                  EngineTurn(acc, _engines[i], source_language, source_script,
                             EngineCall(_engines[i], text, source_language,
                                        source_script, acc.caches, r, order)),
                  text, source_language, source_script, r, order)

\* romanizations = self._engines["python-slugify"](...): the name is bound to
\* the list the engine returned, which is the list its lru_cache holds
BindSlugifyList(caches, source_language, source_script, res) ==
  [exc |-> res.exc, val |-> res.val, caches |-> res.caches,
   calls |-> <<EngineCallRecord("python-slugify", source_language,
                                source_script, res.exc)>>,
   obj |-> res.obj]

\* the branch for an undefined language: python-slugify alone
OnlySlugify(text, source_language, source_script, caches, r, order) ==
  BindSlugifyList(caches, source_language, source_script,
                  EngineCall("python-slugify", text, source_language,
                             source_script, caches, r, order))

\* a dispatch that runs every engine whatever the language
DispatchAlways(text, lang_tags, source_language, source_script, caches, r, order) ==
  RunEngines(1, NewList(caches), text, source_language, source_script, r, order)

\* "perform romanization using all appropriate engines"
Dispatch(text, lang_tags, source_language, source_script, caches, r, order) ==
  IF startswith_und(lang_tags)
  THEN OnlySlugify(text, source_language, source_script, caches, r, order)
  ELSE RunEngines(1, NewList(caches), text, source_language, source_script,
                  r, order)

\* an expected script without the rule for ancient Greek
ExpectedScriptNoGrc(lang_tags) == LanguageGet(lang_tags).script

\* the script the language tag is expected to be written in
ExpectedScript(lang_tags) ==
  IF LanguageGet(lang_tags).language = "grc" THEN "Grek"
  ELSE LanguageGet(lang_tags).script

\* a guess that never adopts the candidate
GuessLanguageNever(lang_tags, source_script) == lang_tags

\* the language guessed for an undefined tag from the script
GuessLanguage(lang_tags, source_script) ==
  IF lang_tags = "und"
     /\ Cardinality(DictGet(languages_by_script, source_script, {})) = 1
  THEN CHOOSE l \in DictGet(languages_by_script, source_script, {}) : TRUE
  ELSE lang_tags

\* source_language as the mismatch check leaves it
SourceLanguage(lang_tags) ==
  IF lang_tags # "und" THEN LanguageGet(lang_tags).language ELSE "und"

\* an identity entry built from the tag instead of the text
IdentityEntryOfTag(text, lang_tags) ==
  RomanString(text, lang_tags, <<lang_tags>>, "identity")

\* the entry appended for a text already in Latin script
IdentityEntry(text, lang_tags) == RomanString(text, lang_tags, text, "identity")

\* romanizations.append(...): the list object changes, and with it what every
\* cache entry holding that object gives
AppendIdentity(text, lang_tags, run) ==
  [run EXCEPT !.val = Append(run.val, IdentityEntry(text, lang_tags)),
              !.caches = MutateObj(run.caches, run.obj,
                                   Append(run.val,
                                          IdentityEntry(text, lang_tags)))]

\* the return of romanizations
ReturnRomanizations(lang_tags, source_language, source_script, run) ==
  [Outcome("", run.val, run.caches, TRUE, run.calls, "dispatch",
           source_script, lang_tags, source_language)
     EXCEPT !.obj = run.obj]

\* the end of romanize: the identity entry and the return
Finish(text, lang_tags, source_language, source_script, run) ==
  IF run.exc # ""
  THEN Outcome(run.exc, <<>>, run.caches, TRUE, run.calls, "dispatch",
               source_script, lang_tags, source_language)
  ELSE IF source_script = "Latn"
  THEN ReturnRomanizations(lang_tags, source_language, source_script,
                           AppendIdentity(text, lang_tags, run))
  ELSE ReturnRomanizations(lang_tags, source_language, source_script, run)

\* romanize from the mismatch check on
CheckAndDispatch(text, lang_tags, source_script, caches, r, order) ==
  IF lang_tags # "und" /\ source_script # ExpectedScript(lang_tags)
     /\ ExpectedScript(lang_tags) # None
  THEN Outcome("", <<>>, caches, TRUE, <<>>, "mismatch",
               source_script, lang_tags, None)
  ELSE Finish(text, lang_tags, SourceLanguage(lang_tags), source_script,
              Dispatch(text, lang_tags, SourceLanguage(lang_tags),
                       source_script, caches, r, order))

\* romanize from the script count on: det is what detect_scripts gave
AfterDetect(text, lang_tags, det, r, order) ==
  IF Cardinality(det.val) # 1
  THEN Outcome("", <<>>, det.caches, TRUE, <<>>, "scripts",
               None, lang_tags, None)
  ELSE CheckAndDispatch(text,
                        GuessLanguage(lang_tags, CHOOSE sc \in det.val : TRUE),
                        CHOOSE sc \in det.val : TRUE, det.caches, r, order)

\* a body that validates the tag only after detecting the scripts
romanize_body_late_validation(text, lang_tags, caches, r, order) ==
  IF ~tag_is_valid(lang_tags)
  THEN Outcome("ValueError", <<>>, CachedDetect(caches, text).caches, TRUE,
               <<>>, "invalid", None, lang_tags, None)
  ELSE AfterDetect(text, standardize_tag(lang_tags),
                   CachedDetect(caches, text), r, order)

\* the body of Romanizer.romanize
romanize_body(text, lang_tags, caches, r, order) ==
  IF ~tag_is_valid(lang_tags)
  THEN Outcome("ValueError", <<>>, caches, FALSE, <<>>, "invalid",
               None, lang_tags, None)
  ELSE AfterDetect(text, standardize_tag(lang_tags),
                   CachedDetect(caches, text), r, order)

\* --------------------------------------------------------------- inputs
Texts ==
  { <<"alpha", "theta", "eta_tonos">>,   \* Greek
    <<"a", "t">>,                        \* Latin
    <<"alpha", "a">>,                    \* Greek and Latin
    <<"zhong">>,                         \* a script without registry description
    <<"d1">>,                            \* no alphabetic character
    <<"ya">> }                           \* Cyrillic

Tags == {"und", "und-Latn", "el", "grc", "ru", "ar", "sr-Cyrl", ""}

\* ---------------------------------------------------------------- actions
Observed(text, lang_tags, hit, o) ==
  [text |-> text, lang_tags_in |-> lang_tags, hit |-> hit, exc |-> o.exc,
   result |-> o.val, detected |-> o.detected, calls |-> o.calls,
   stage |-> o.stage, source_script |-> o.source_script,
   lang_tags |-> o.lang_tags, source_language |-> o.source_language]

Init ==
  /\ cache = [n \in CacheNames |-> <<>>]
  /\ residue \in {"keep", "drop"}
  /\ hash_order \in {0, 1}
  /\ ncalls = 0
  /\ last = Observed(<<>>, "", FALSE,
                     Outcome("", <<>>, cache, FALSE, <<>>, "none", None, "", None))
  /\ detector = ParseAll(Unparsed(IanaRegistry))

\* romanize(text, lang_tags) answered by its lru_cache (budget bounds the
\* calls of a behaviour)
RomanizeHit(text, lang_tags, budget) ==
  /\ ncalls < budget
  /\ Hit(cache["romanize"], RomanizeKey(text, lang_tags))
  /\ cache' = [cache EXCEPT !["romanize"] =
                 Touch(cache["romanize"], RomanizeKey(text, lang_tags))]
  /\ last' = Observed(text, lang_tags, TRUE,
                      Outcome("", Lookup(cache["romanize"],
                                         RomanizeKey(text, lang_tags)),
                              cache', FALSE, <<>>, "hit", None, lang_tags, None))
  /\ ncalls' = ncalls + 1
  /\ UNCHANGED <<residue, hash_order, detector>>

\* the end of a miss: o is what the body did.  lru_cache stores the returned
\* list object under the key and stores nothing for a call that raised.
Complete(text, lang_tags, o) ==
  /\ cache' = IF o.exc = ""
              THEN [o.caches EXCEPT !["romanize"] =
                      InsertObj(o.caches["romanize"],
                                RomanizeKey(text, lang_tags), o.val,
                                IF o.obj # NoObj THEN o.obj
                                ELSE FreshObj(o.caches))]
              ELSE o.caches
  /\ last' = Observed(text, lang_tags, FALSE, [o EXCEPT !.caches = cache'])

\* romanize(text, lang_tags) run: it returns a list or raises to the caller
RomanizeMiss(text, lang_tags, budget) ==
  /\ ncalls < budget
  /\ ~Hit(cache["romanize"], RomanizeKey(text, lang_tags))
  /\ Complete(text, lang_tags,
              romanize_body(text, lang_tags, cache, residue, hash_order))
  /\ ncalls' = ncalls + 1
  /\ UNCHANGED <<residue, hash_order, detector>>

Next ==
  \E text \in Texts, lang_tags \in Tags :
    \/ RomanizeHit(text, lang_tags, MaxCalls)
    \/ RomanizeMiss(text, lang_tags, MaxCalls)

Spec == Init /\ [][Next]_vars

\* A caller that keeps asking about few texts under few tags, long enough for
\* entries to be hit, evicted and computed again.
RepeatCalls == CacheMax + 2

RepeatTexts == {<<"alpha", "theta", "eta_tonos">>, <<"a", "t">>, <<"ya">>}

RepeatTags == {"und", "und-Latn", "grc", "ru"}

NextRepeat ==
  \E text \in RepeatTexts, lang_tags \in RepeatTags :
    \/ RomanizeHit(text, lang_tags, RepeatCalls)
    \/ RomanizeMiss(text, lang_tags, RepeatCalls)

SpecCache == Init /\ [][NextRepeat]_vars

\* ---------------------------------------------------------------- the caller
\* the engines property: list(self._engines.keys())
engines == _engines

\* the caller reads the engines property
Engines ==
  /\ last' = Observed(<<>>, "", FALSE,
                      Outcome("", engines, cache, FALSE, <<>>, "engines",
                              None, "", None))
  /\ UNCHANGED <<cache, residue, hash_order, ncalls, detector>>

\* a RomanString of the caller's own making
CallerEntry == RomanString(<<>>, "und", <<>>, "caller")

\* what the caller can do to a list it was given
Changed(list, change) ==
  CASE change = "append" -> Append(list, CallerEntry)
    [] change = "remove" -> SubSeq(list, 1, Len(list) - 1)
    [] change = "overwrite" -> [list EXCEPT ![1] = CallerEntry]

\* The caller changes the list the last romanize call returned.  romanize
\* returns the list object its lru_cache holds, so the change is a change of
\* that object.
CallerChanges(change) ==
  /\ last.stage \in {"hit", "scripts", "mismatch", "dispatch"}
  /\ last.exc = ""
  /\ Hit(cache["romanize"], RomanizeKey(last.text, last.lang_tags_in))
  /\ LET e == EntryOf(cache["romanize"], RomanizeKey(last.text, last.lang_tags_in))
     IN /\ change = "append" => CallerEntry \notin {e.val[i] : i \in 1..Len(e.val)}
        /\ change = "remove" => e.val # <<>>
        /\ change = "overwrite" => e.val # <<>> /\ e.val[1] # CallerEntry
        /\ cache' = MutateObj(cache, e.obj, Changed(e.val, change))
  /\ UNCHANGED <<residue, hash_order, ncalls, last, detector>>

NextCaller ==
  \/ \E text \in RepeatTexts, lang_tags \in RepeatTags :
       \/ RomanizeHit(text, lang_tags, MaxCalls)
       \/ RomanizeMiss(text, lang_tags, MaxCalls)
  \/ Engines
  \/ \E change \in {"append", "remove", "overwrite"} : CallerChanges(change)

SpecCaller == Init /\ [][NextCaller]_vars

\* ------------------------------------------------- building a ScriptDetector
\* number of entries of a registry under construction
RegistryLen == 3

\* the entries a registry is drawn from
EntryPool ==
  { <<<<"File-Date", "2025-01-01">>>>,
    ScriptEntry("Grek", "Greek"),
    ScriptEntry("Latn", "Latin"),
    ScriptEntry("Latn", "Greek"),
    ScriptEntry("Grek", "Hellenic"),
    \* a description with a continuation line
    <<<<"Type", "script">>, <<"Subtag", "Hani">>,
      <<"Description", "Han (Hanzi,">>, <<"  ", "Kanji, Hanja)">>,
      <<"Added", "2004-05-01">>>>,
    \* a field no script entry has
    <<<<"Type", "script">>, <<"Subtag", "Cyrl">>, <<"Description", "Cyrillic">>,
      <<"Scope", "collection">>>>,
    LanguageEntry("el", "Grek"),
    \* comments with a continuation line
    <<<<"Type", "language">>, <<"Subtag", "en">>, <<"Description", "English">>,
      <<"Suppress-Script", "Latn">>, <<"Comments", "see">>, <<"  ", "also">>>>,
    \* two Subtag fields
    <<<<"Type", "language">>, <<"Subtag", "el">>, <<"Subtag", "grc">>>> }

\* ScriptDetector.__init__ up to the call of _parse_registry, for some registry
InitRegistry ==
  /\ cache = [n \in CacheNames |-> <<>>]
  /\ residue = "keep"
  /\ hash_order = 0
  /\ ncalls = 0
  /\ last = Observed(<<>>, "", FALSE,
                     Outcome("", <<>>, cache, FALSE, <<>>, "none", None, "", None))
  /\ \E registry \in [1..RegistryLen -> EntryPool] : detector = Unparsed(registry)

\* _parse_registry takes the next entry
ParseEntry ==
  /\ detector.exc = ""
  /\ detector.entry < Len(detector.registry)
  /\ detector' = [ParseOne(detector, detector.registry[detector.entry + 1])
                   EXCEPT !.entry = detector.entry + 1]
  /\ UNCHANGED <<cache, residue, hash_order, ncalls, last>>

NextRegistry == ParseEntry

SpecRegistry == InitRegistry /\ [][NextRegistry]_vars

\* ================================================================ claims
\* the last call returned a list to the caller (computed or memoized)
CallReturned == last.stage # "none" /\ last.exc = ""

\* the last call ran the body of romanize up to engine dispatch and returned
Dispatched == last.stage = "dispatch" /\ last.exc = ""

\* the script subtags the registry resolves among the alphabetic characters
ScriptsAmongAlphabetic(text) ==
  {scripts_by_description[title(unicodedata_name(c))] :
     c \in {x \in CharsOf(text) :
              isalpha(x) /\ title(unicodedata_name(x)) \in DOMAIN scripts_by_description}}

\* the entries of a result produced under the identity marker
IdentityEntries(result) ==
  {i \in 1..Len(result) : result[i].engine = "identity"}

\* C1: a text whose alphabetic characters show zero scripts, or two or more,
\* is given the empty sequence, whatever the tag.
C1_EmptyUnlessOneScript ==
  (CallReturned /\ Cardinality(ScriptsAmongAlphabetic(last.text)) # 1)
    => last.result = <<>>

ExpectedOf(tag) ==
  IF LanguageGet(tag).language = "grc" THEN "Grek" ELSE LanguageGet(tag).script

UniqueCandidate ==
  /\ Dispatched
  /\ standardize_tag(last.lang_tags_in) = "und"
  /\ Cardinality(DictGet(languages_by_script, last.source_script, {})) = 1

TheCandidate ==
  CHOOSE l \in DictGet(languages_by_script, last.source_script, {}) : TRUE

\* every engine was called, in registration order, for the language
AllEnginesCalledFor(language) ==
  /\ Len(last.calls) = Len(_engines)
  /\ \A i \in 1..Len(last.calls) :
       /\ last.calls[i].engine = _engines[i]
       /\ last.calls[i].lang_subtag = language

\* C3 as stated: with tag "und" and one candidate language, the engines are
\* dispatched for the candidate and the results still report "und".
C3_UndTagKept ==
  UniqueCandidate
    => /\ AllEnginesCalledFor(TheCandidate)
       /\ \A i \in 1..Len(last.result) :
            LanguageGet(last.result[i].original_lang_tag).language = "und"

\* C3 amended: with tag "und" and one candidate language, the engines are
\* dispatched for the candidate and the results report the candidate.
C3_GuessedLanguageReported ==
  UniqueCandidate
    => /\ AllEnginesCalledFor(TheCandidate)
       /\ \A i \in 1..Len(last.result) :
            LanguageGet(last.result[i].original_lang_tag).language = TheCandidate

C3_Witness ==
  /\ UniqueCandidate
  /\ last.lang_tags_in = "und"
  /\ last.source_script = "Grek"
  /\ Len(last.result) = 2
  /\ last.result[2].engine = "romanize-schizas"
  /\ last.result[2].original_lang_tag = "el"

\* C4: every entry of a result has the input text as original and the
\* canonical tag of working language and detected script as original_lang_tag.
C4_AllEntriesCanonicalTag ==
  Dispatched
    => \A i \in 1..Len(last.result) :
         /\ last.result[i].original = last.text
         /\ last.result[i].original_lang_tag =
              standardize_tag(last.source_language \o "-" \o Str(last.source_script))

\* the last call ran the body past the script count with a tag other than "und"
PastScriptCountWithLanguage ==
  /\ last.stage \in {"mismatch", "dispatch"}
  /\ standardize_tag(last.lang_tags_in) # "und"

\* C5: with a tag other than "und", a known expected script that differs from
\* the detected one ends the call with the empty sequence and no engine call;
\* an unknown expected script lets dispatch proceed.
C5_MismatchCheck ==
  PastScriptCountWithLanguage
    => LET expected == ExpectedOf(standardize_tag(last.lang_tags_in))
       IN /\ (expected # None /\ expected # last.source_script)
               => /\ last.stage = "mismatch"
                  /\ last.exc = ""
                  /\ last.result = <<>>
                  /\ last.calls = <<>>
          /\ (expected = None \/ expected = last.source_script)
               => /\ last.stage = "dispatch"
                  /\ last.calls # <<>>

C5_Witness ==
  /\ PastScriptCountWithLanguage
  /\ last.lang_tags_in = "grc"
  /\ last.source_script = "Latn"
  /\ last.stage = "mismatch"
  /\ last.result = <<>>

\* C6: when the working language is "und" at dispatch (supplied so, or left
\* so because the script has no single candidate language), the only engine
\* called is python-slugify, with language "und" and the detected script.
C6_OnlySlugifyForUnd ==
  (/\ last.stage = "dispatch"
   /\ \/ last.source_language = "und"
      \/ /\ standardize_tag(last.lang_tags_in) = "und"
         /\ Cardinality(DictGet(languages_by_script, last.source_script, {})) # 1)
    => /\ last.exc = ""
       /\ Len(last.calls) = 1
       /\ last.calls[1] = [engine |-> "python-slugify", lang_subtag |-> "und",
                           script_subtag |-> last.source_script, exc |-> ""]
       /\ \A i \in 1..Len(last.result) :
            last.result[i].engine \in {"python-slugify", "identity"}

C6_Witness ==
  /\ last.stage = "dispatch"
  /\ last.lang_tags_in = "und"
  /\ last.source_script = "Cyrl"
  /\ Len(last.calls) = 1
  /\ Len(last.result) = 1
  /\ last.result[1].engine = "python-slugify"

\* the capability declaration of an engine
Supports(engine, language, script) ==
  CASE engine = "iuliia" ->
         /\ language \in {"ab", "be", "bg", "kk", "mk", "ru", "uk", "uz", "uzn", "uzs"}
         /\ script = "Cyrl"
    [] engine = "python-slugify" -> TRUE
    [] engine = "romanize-schizas" -> language = "el" /\ script = "Grek"
    [] engine = "romanize-manninen" ->
         /\ language \in {"grc", "hy", "syc", "ar", "phn", "brh", "cop", "hbo"}
         /\ script \in {"Grek", "Armn", "Syrc", "Arab", "Phnx", "Brah", "Copt", "Hebr"}
    [] OTHER -> language = "sr" /\ script = "Cyrl"

NoCaches == [n \in CacheNames |-> <<>>]

\* what the engines supporting the pair produce, in registration order
RECURSIVE SupportedResults(_, _, _, _)
SupportedResults(i, text, language, script) ==
  IF i > Len(_engines) THEN <<>>
  ELSE (IF Supports(_engines[i], language, script)
        THEN EngineBody(_engines[i], text, language, script, NoCaches,
                        residue, hash_order).val
        ELSE <<>>)
       \o SupportedResults(i + 1, text, language, script)

C8_InvalidTagRaises ==
  (last.stage # "none" /\ ~tag_is_valid(last.lang_tags_in))
    => /\ last.exc = "ValueError"
       /\ ~last.detected
       /\ last.calls = <<>>
       /\ ncalls = 1 => cache = NoCaches

C8_Witness ==
  /\ last.stage = "invalid"
  /\ last.lang_tags_in = ""
  /\ last.text = <<"alpha", "theta", "eta_tonos">>
  /\ last.exc = "ValueError"
  /\ ncalls = 1

\* C9: no engine-produced entry of a returned list has romanized text that is
\* not exactly Latin script.
C9_EngineOutputIsLatin ==
  CallReturned
    => \A i \in 1..Len(last.result) :
         last.result[i].engine # "identity"
           => detect_scripts(last.result[i].romanized) = {"Latn"}

\* the list an unmemoized run of romanize returns for the arguments
Unmemoized(text, lang_tags) ==
  romanize_body(text, lang_tags, NoCaches, residue, hash_order).val

\* C10: the list a call returns, computed or memoized, after any earlier
\* calls, equals the list an unmemoized computation returns.
C10_MemoizedEqualsComputed ==
  CallReturned => last.result = Unmemoized(last.text, last.lang_tags_in)

\* C11: the engines property gives exactly python-slugify, romanize-schizas
\* and romanize-manninen, in that order.
C11_EnginesAreTheThree ==
  last.stage = "engines"
    => last.result = <<"python-slugify", "romanize-schizas", "romanize-manninen">>

\* C12: no list a romanize call returns holds an entry that the caller put
\* into a list returned earlier.
C12_CallerChangeNotObserved ==
  (last.stage \in {"hit", "scripts", "mismatch", "dispatch"} /\ last.exc = "")
    => \A i \in 1..Len(last.result) : last.result[i] # CallerEntry

\* C13: detect_scripts gives exactly the subtags the registry resolves among
\* the alphabetic characters of the text; a script name without registry
\* description adds nothing.
C13_UnresolvedDropped ==
  last.detected => detect_scripts(last.text) = ScriptsAmongAlphabetic(last.text)

\* the registry index the romanize pipeline reads is the one parsed from the
\* registry
RegistryIndexAgrees ==
  /\ detector.exc = ""
  /\ detector.scripts_by_description = scripts_by_description
  /\ detector.languages_by_script = languages_by_script

\* the entry _parse_registry took last
LastEntry == detector.registry[detector.entry]

\* C14: the duplicate-description error is raised only for a description that
\* is mapped to a different subtag, and the duplicate-subtag error only for a
\* subtag whose description set differs.
C14_DuplicateOnlyWhenDifferent ==
  /\ detector.exc = DuplicateDescription
       => \E description \in SeqToSet(FieldValues(LastEntry, "Description")) :
            /\ description \in DOMAIN detector.scripts_by_description
            /\ detector.scripts_by_description[description]
                 # FieldValue(LastEntry, "Subtag")
  /\ detector.exc = DuplicateSubtag
       => detector.scripts_by_subtag[FieldValue(LastEntry, "Subtag")]
            # SeqToSet(FieldValues(LastEntry, "Description"))

\* the lines of an entry with each continuation line joined onto the line
\* before it
RECURSIVE LogicalLines(_)
LogicalLines(lines) ==
  IF lines = <<>> THEN <<>>
  ELSE IF startswith_indent(lines[Len(lines)])
  THEN LET before == LogicalLines(SubSeq(lines, 1, Len(lines) - 1))
       IN [before EXCEPT ![Len(before)] = JoinedLine(@, lines[Len(lines)])]
  ELSE Append(LogicalLines(SubSeq(lines, 1, Len(lines) - 1)), lines[Len(lines)])

\* C15: a script entry parsed without error is indexed under the full text of
\* each of its descriptions, continuation lines included.
C15_ContinuationJoined ==
  (/\ detector.entry > 0
   /\ detector.exc = ""
   /\ LastEntry[1] = <<"Type", "script">>)
    => \A description \in SeqToSet(FieldValues(LogicalLines(LastEntry), "Description")) :
         /\ description \in DOMAIN detector.scripts_by_description
         /\ detector.scripts_by_description[description]
              = FieldValue(LastEntry, "Subtag")

====
